---- MODULE Spec2Model ----
(***************************************************************************)
(* The Snake game engine of app/(tabs)/snake.tsx, swipe variant (lines      *)
(* 1-278), as a state machine.                                              *)
(*                                                                          *)
(* React state (useState) and refs (useRef) are the variables.  Every       *)
(* handler (interval callback, swipe release, button press, reset timeout)  *)
(* is one action: the state updates it queues, the render that applies      *)
(* them and the effects of lines 37-40 that copy dir, running and food      *)
(* into their refs all belong to the action, so each action ends with the   *)
(* refs equal to the state they mirror.                                     *)
(***************************************************************************)
EXTENDS Integers, Sequences, FiniteSets, TLC

\* ---------------------------------------------------------------- constants

BOARD_COLS == 20

BOARD_ROWS == 26

BASE_SPEED_MS == 140

MIN_SPEED_MS == 70

INITIAL_SNAKE == << [x |-> 5, y |-> 10], [x |-> 4, y |-> 10], [x |-> 3, y |-> 10] >>

INITIAL_DIR == "RIGHT"

Direction == {"UP", "DOWN", "LEFT", "RIGHT"}

\* ------------------------------------------------------------------- bounds

\* The steps explored per game (since the last reinitialization): a step
\* that eats costs 1 and any other step costs IdleCost, so that a game is
\* followed through few turns and many meals (16 meals and 2 other steps
\* meet the 70ms floor) or through more turns and few meals (2 meals and 3
\* other steps make the snake meet its own body and tail).
Budget == 44

\* A straight run of meals from the initial head to the right wall.
IdleCost == BOARD_COLS - 6

\* Reset timeouts pending at the same time.
MaxTimers == 2

\* -------------------------------------------------------------------- state

VARIABLES
  snake,      \* useState snake: sequence of Points, head first
  dir,        \* useState dir
  food,       \* useState food
  running,    \* useState running
  score,      \* useState score
  speed,      \* useState speed: the period of the interval, in ms
  dirRef,     \* useRef mirrors, read by the interval callback and by step
  runningRef,
  foodRef,
  growthRef,  \* pending growth
  timers,     \* number of pending setTimeout(..., 600) callbacks of resetGame
  intervals,  \* the live setInterval timers of the interval effect
  idle,       \* non-eating steps since the last reinitialization (bounds the model)
  lastOp      \* the handler that ran last and its outcome (history)

vars == << snake, dir, food, running, score, speed,
           dirRef, runningRef, foodRef, growthRef, timers, intervals, idle, lastOp >>

\* The state the engine owns, without the history and bounding variables.
engine == << snake, dir, food, running, score, speed,
             dirRef, runningRef, foodRef, growthRef >>

\* ------------------------------------------------------------------ helpers

\* Whether the model follows a game to `meals` meals and `others` other steps.
WithinBudget(meals, others) == meals + IdleCost * others <= Budget

moveHead(head, d) ==
  CASE d = "UP"    -> [x |-> head.x, y |-> head.y - 1]
    [] d = "DOWN"  -> [x |-> head.x, y |-> head.y + 1]
    [] d = "LEFT"  -> [x |-> head.x - 1, y |-> head.y]
    [] d = "RIGHT" -> [x |-> head.x + 1, y |-> head.y]
    [] OTHER       -> head

\* hitsWall with the right and bottom walls one cell too far.
hitsWallOffByOne(nextHead) ==
  \/ nextHead.x < 0
  \/ nextHead.x > BOARD_COLS
  \/ nextHead.y < 0
  \/ nextHead.y > BOARD_ROWS

\* The wall test of step.
hitsWall(nextHead) ==
  \/ nextHead.x < 0
  \/ nextHead.x >= BOARD_COLS
  \/ nextHead.y < 0
  \/ nextHead.y >= BOARD_ROWS

\* bodyToCheck that never leaves the tail out.
bodyToCheckWhole(prev, willMoveTail) == prev

\* prev.slice(0, -1) when the tail will move away, prev otherwise.
bodyToCheck(prev, willMoveTail) ==
  IF willMoveTail THEN SubSeq(prev, 1, Len(prev) - 1) ELSE prev

hitsSelf(body, nextHead) ==
  \E i \in 1..Len(body) : body[i].x = nextHead.x /\ body[i].y = nextHead.y

\* nextSpeed rounding to the nearest integer instead of flooring.
nextSpeedRounded(ms) ==
  LET scaled == (ms * 96 + 50) \div 100
  IN  IF scaled > MIN_SPEED_MS THEN scaled ELSE MIN_SPEED_MS

\* nextSpeed without the Math.max(70, ...) floor.
nextSpeedNoFloor(ms) == (ms * 96) \div 100

\* Math.max(70, Math.floor(ms * 0.96)); for 70 <= ms <= 140 the double
\* product floors to the same integer as ms * 96 \div 100.
nextSpeed(ms) ==
  LET scaled == (ms * 96) \div 100
  IN  IF scaled > MIN_SPEED_MS THEN scaled ELSE MIN_SPEED_MS

\* A route through every cell of the board, each cell next to the one
\* before it, that starts with the initial snake from tail to head: row 10
\* to the right wall, the rows above by columns from right to left, the
\* three cells left of the initial tail, then the rows below by columns
\* from left to right.  RouteCell(k) is its k-th cell.
RouteCell(k) ==
  IF k <= 17 THEN [x |-> k + 2, y |-> 10]
  ELSE IF k <= 217
  THEN LET c == 19 - ((k - 18) \div 10)
           r == (k - 18) % 10
       IN  [x |-> c, y |-> IF c % 2 = 1 THEN 9 - r ELSE r]
  ELSE IF k <= 220 THEN [x |-> k - 218, y |-> 10]
  ELSE IF k <= 223 THEN [x |-> 223 - k, y |-> 11]
  ELSE IF k <= 237 THEN [x |-> 0, y |-> 12 + (k - 224)]
  ELSE IF k <= 251 THEN [x |-> 1, y |-> 25 - (k - 238)]
  ELSE IF k <= 265 THEN [x |-> 2, y |-> 12 + (k - 252)]
  ELSE LET c == 3 + ((k - 266) \div 15)
           r == (k - 266) % 15
       IN  [x |-> c, y |-> IF c % 2 = 1 THEN 25 - r ELSE 11 + r]

\* The snake lies along the route: its tail on the first cell, its head on
\* the Len-th.
onRoute(occupied) ==
  \A i \in 1..Len(occupied) : occupied[i] = RouteCell(Len(occupied) - i + 1)

\* The cells a pair of Math.random() draws may name.  Each draw is
\* Math.floor(Math.random() * BOARD_COLS) or (... * BOARD_ROWS), so a cell
\* of the board; the model explores the draws that name the head (an
\* occupied cell), the cell straight ahead of it, the corner (0,0) and,
\* for a snake that lies along the route, the next cell of the route.
sampleCells(occupied) ==
  LET head == occupied[1]
      neck == occupied[2]
      ahead == [x |-> head.x + (head.x - neck.x),
                y |-> head.y + (head.y - neck.y)]
      onward == IF Len(occupied) < BOARD_COLS * BOARD_ROWS /\ onRoute(occupied)
                THEN {RouteCell(Len(occupied) + 1)}
                ELSE {}
  IN  { c \in {head, ahead, [x |-> 0, y |-> 0]} \cup onward :
          c.x \in 0..(BOARD_COLS - 1) /\ c.y \in 0..(BOARD_ROWS - 1) }

\* randomFood accepting the first sample, occupied or not.
randomFoodNoReject(occupied) == sampleCells(occupied)

\* randomFood testing the samples against the snake without its head.
randomFoodIgnoresHead(occupied) ==
  { c \in sampleCells(occupied) :
      ~ \E i \in 2..Len(occupied) : occupied[i].x = c.x /\ occupied[i].y = c.y }

\* The outcomes of randomFood: the sampled cells the rejection loop accepts.
randomFood(occupied) ==
  { c \in sampleCells(occupied) :
      ~ \E i \in 1..Len(occupied) : occupied[i].x = c.x /\ occupied[i].y = c.y }

\* changeDirResult rejecting only the horizontal reversals.
changeDirResultHorizontalOnly(curr, next) ==
  IF \/ (curr = "LEFT" /\ next = "RIGHT")
     \/ (curr = "RIGHT" /\ next = "LEFT")
  THEN curr
  ELSE next

\* The updater of changeDir: the next value of dir.
changeDirResult(curr, next) ==
  IF \/ (curr = "UP" /\ next = "DOWN")
     \/ (curr = "DOWN" /\ next = "UP")
     \/ (curr = "LEFT" /\ next = "RIGHT")
     \/ (curr = "RIGHT" /\ next = "LEFT")
  THEN curr
  ELSE next

\* tailAdjust keeping the pending growth for the next tick.
tailAdjustDeferred(newSnake, growth) ==
  IF growth > 1
  THEN [snake |-> newSnake, growth |-> growth - 1]
  ELSE [snake |-> SubSeq(newSnake, 1, Len(newSnake) - 1), growth |-> growth]

\* tailAdjust that keeps the tail without consuming the pending growth.
tailAdjustKeepsGrowth(newSnake, growth) ==
  IF growth > 0
  THEN [snake |-> newSnake, growth |-> growth]
  ELSE [snake |-> SubSeq(newSnake, 1, Len(newSnake) - 1), growth |-> growth]

\* The tail adjustment of step: the snake returned and the growth left.
tailAdjust(newSnake, growth) ==
  IF growth > 0
  THEN [snake |-> newSnake, growth |-> growth - 1]
  ELSE [snake |-> SubSeq(newSnake, 1, Len(newSnake) - 1), growth |-> growth]

\* The interval effect without its cleanup (no clearInterval).
restartIntervalNoCleanup(live, oldSpeed, newInterval) ==
  IF newInterval.ms = oldSpeed THEN live ELSE live \cup {newInterval}

\* The interval effect, run after a render: when speed (its dependency) has
\* changed, the cleanup clears the interval the effect created for the old
\* speed and the effect creates newInterval; otherwise nothing happens.
restartInterval(live, oldSpeed, newInterval) ==
  IF newInterval.ms = oldSpeed
  THEN live
  ELSE (live \ { iv \in live : iv.ms = oldSpeed }) \cup {newInterval}

\* ------------------------------------------------------------------ actions

Init ==
  /\ snake = INITIAL_SNAKE
  /\ dir = INITIAL_DIR
  /\ food \in randomFood(INITIAL_SNAKE)
  /\ running = TRUE
  /\ score = 0
  /\ speed = BASE_SPEED_MS
  /\ dirRef = dir
  /\ runningRef = running
  /\ foodRef = food
  /\ growthRef = 0
  /\ timers = 0
  /\ intervals = { [ms |-> speed] }
  /\ idle = 0
  /\ lastOp = "init"

\* step when the next head leaves the board or meets the body: resetGame()
\* is called (running false, one more timeout) and INITIAL_SNAKE returned.
stepCollide(op) ==
  /\ timers < MaxTimers
  /\ snake' = INITIAL_SNAKE
  /\ running' = FALSE
  /\ runningRef' = FALSE
  /\ timers' = timers + 1
  /\ idle' = idle + 1
  /\ lastOp' = op
  /\ UNCHANGED << dir, dirRef, food, foodRef, score, speed, growthRef, intervals >>

step ==
  LET prev == snake
      currentFood == foodRef
      nextHead == moveHead(prev[1], dirRef)
      ateFood == nextHead.x = currentFood.x /\ nextHead.y = currentFood.y
      willMoveTail == ~ateFood /\ growthRef = 0
      newSnake == << nextHead >> \o prev
  IN  IF hitsWall(nextHead)
      THEN stepCollide("step_wall")
      ELSE IF hitsSelf(bodyToCheck(prev, willMoveTail), nextHead)
      THEN stepCollide("step_self")
      ELSE IF ateFood
      THEN /\ \E newFood \in randomFood(newSnake) :
                /\ food' = newFood
                /\ foodRef' = newFood
           /\ score' = score + 1
           /\ speed' = nextSpeed(speed)
           /\ intervals' = restartInterval(intervals, speed, [ms |-> speed'])
           /\ snake' = tailAdjust(newSnake, growthRef + 1).snake
           /\ growthRef' = tailAdjust(newSnake, growthRef + 1).growth
           /\ lastOp' = "step_eat"
           /\ UNCHANGED << dir, dirRef, running, runningRef, timers, idle >>
      ELSE /\ snake' = tailAdjust(newSnake, growthRef).snake
           /\ growthRef' = tailAdjust(newSnake, growthRef).growth
           /\ idle' = idle + 1
           /\ lastOp' = "step_move"
           /\ UNCHANGED << dir, dirRef, food, foodRef, running, runningRef,
                           score, speed, timers, intervals >>

\* What the setSnake updater of step decides from the snake prev, the
\* direction d, the food f, the pending growth and the speed ms: the kind
\* of collision, the snake it returns, whether it ate, and the speed it sets.
swipeOutcome(prev, d, f, growth, ms) ==
  LET nextHead == moveHead(prev[1], d)
      ateFood == nextHead.x = f.x /\ nextHead.y = f.y
      willMoveTail == ~ateFood /\ growth = 0
      newSnake == << nextHead >> \o prev
  IN  IF hitsWall(nextHead)
      THEN [hit |-> "wall", snake |-> INITIAL_SNAKE, ate |-> FALSE, speed |-> ms]
      ELSE IF hitsSelf(bodyToCheck(prev, willMoveTail), nextHead)
      THEN [hit |-> "self", snake |-> INITIAL_SNAKE, ate |-> FALSE, speed |-> ms]
      ELSE IF ateFood
      THEN [hit |-> "none", snake |-> tailAdjust(newSnake, growth + 1).snake,
            ate |-> TRUE, speed |-> nextSpeed(ms)]
      ELSE [hit |-> "none", snake |-> tailAdjust(newSnake, growth).snake,
            ate |-> FALSE, speed |-> ms]

\* The interval callback without its runningRef guard.
TickUnguarded == step

\* The callback of a live interval: if (!runningRef.current) return; step();
Tick ==
  /\ intervals # {}
  /\ IF ~runningRef
     THEN /\ lastOp' = "tick_ignored"
          /\ UNCHANGED << engine, timers, intervals, idle >>
     ELSE step

\* The ticks the model follows: those that keep the game within Budget.
BoundedTick == Tick /\ WithinBudget(score', idle')

\* changeDir without the effect that copies dir into dirRef.
changeDirStaleRef(next) ==
  /\ dir' = changeDirResult(dir, next)
  /\ lastOp' = IF dir' = next THEN "dir_set" ELSE "dir_rejected"
  /\ UNCHANGED << snake, food, foodRef, running, runningRef, score, speed,
                  dirRef, growthRef, timers, intervals, idle >>

\* changeDir(next), from the swipe release.
changeDir(next) ==
  /\ dir' = changeDirResult(dir, next)
  /\ dirRef' = dir'
  /\ lastOp' = IF dir' = next THEN "dir_set" ELSE "dir_rejected"
  /\ UNCHANGED << snake, food, foodRef, running, runningRef, score, speed,
                  growthRef, timers, intervals, idle >>

ChangeDir == \E next \in Direction : changeDir(next)

\* Pause / Resume: setRunning(r => !r).
TogglePause ==
  /\ running' = ~running
  /\ runningRef' = running'
  /\ lastOp' = "toggle"
  /\ UNCHANGED << snake, dir, dirRef, food, foodRef, score, speed,
                  growthRef, timers, intervals, idle >>

\* Restart: resetGame() from the button.
Restart ==
  /\ timers < MaxTimers
  /\ running' = FALSE
  /\ runningRef' = FALSE
  /\ timers' = timers + 1
  /\ lastOp' = "restart"
  /\ UNCHANGED << snake, dir, dirRef, food, foodRef, score, speed,
                  growthRef, intervals, idle >>

\* The timeout callback without setDir(INITIAL_DIR).
ResetTimerFireKeepsDir ==
  /\ timers > 0
  /\ timers' = timers - 1
  /\ snake' = INITIAL_SNAKE
  /\ \E f \in randomFood(INITIAL_SNAKE) :
       /\ food' = f
       /\ foodRef' = f
  /\ speed' = BASE_SPEED_MS
  /\ intervals' = restartInterval(intervals, speed, [ms |-> speed'])
  /\ score' = 0
  /\ growthRef' = 0
  /\ running' = TRUE
  /\ runningRef' = TRUE
  /\ idle' = 0
  /\ lastOp' = "timer"
  /\ UNCHANGED << dir, dirRef >>

\* The timeout callback of resetGame, 600ms after the request.
ResetTimerFire ==
  /\ timers > 0
  /\ timers' = timers - 1
  /\ snake' = INITIAL_SNAKE
  /\ dir' = INITIAL_DIR
  /\ dirRef' = INITIAL_DIR
  /\ \E f \in randomFood(INITIAL_SNAKE) :
       /\ food' = f
       /\ foodRef' = f
  /\ speed' = BASE_SPEED_MS
  /\ intervals' = restartInterval(intervals, speed, [ms |-> speed'])
  /\ score' = 0
  /\ growthRef' = 0
  /\ running' = TRUE
  /\ runningRef' = TRUE
  /\ idle' = 0
  /\ lastOp' = "timer"

Next ==
  \/ BoundedTick
  \/ TogglePause
  \/ ChangeDir
  \/ Restart
  \/ ResetTimerFire

Spec == Init /\ [][Next]_vars

\* The reset timeout, once set, fires.
FairSpec == Spec /\ WF_vars(ResetTimerFire)

\* ---------------------------------------------------- one game, played out
\* The player steers along the route and every meal's randomFood draws the
\* next cell of the route, so each tick eats.

FillInit == Init /\ food = RouteCell(Len(INITIAL_SNAKE) + 1)

\* The swipe that turns the snake towards the food beside its head.
FillSteer ==
  \E next \in Direction :
    /\ next # dir
    /\ moveHead(snake[1], next) = food
    /\ changeDir(next)

\* A tick while the snake heads for the food.  When the meal leaves no
\* free cell, randomFood's while (true) loop never returns: the step has
\* no outcome.
FillTick ==
  /\ moveHead(snake[1], dirRef) = food
  /\ Tick
  /\ food' = RouteCell(Len(snake') + 1)

FillNext == FillSteer \/ FillTick

FillSpec == FillInit /\ [][FillNext]_vars

\* ------------------------------------------------------- the D-pad variant
\* The second SnakeScreen of snake.tsx, driven by on-screen buttons.  It has
\* no foodRef and no growthRef (both keep their initial values here): its
\* step reads `food` from the closure of the render that created it, and
\* each live interval calls the step of the render in which the interval
\* effect last ran, so an interval is [ms |-> period, food |-> that food].

\* dpadOutcome leaving the tail cell out of the self-collision test.
dpadOutcomeSparesTail(prev, d, f, ms) ==
  LET nextHead == moveHead(prev[1], d)
      ateFood == nextHead.x = f.x /\ nextHead.y = f.y
      newSnake == << nextHead >> \o prev
  IN  IF hitsWall(nextHead)
      THEN [hit |-> "wall", snake |-> INITIAL_SNAKE, ate |-> FALSE, speed |-> ms]
      ELSE IF hitsSelf(SubSeq(prev, 1, Len(prev) - 1), nextHead)
      THEN [hit |-> "self", snake |-> INITIAL_SNAKE, ate |-> FALSE, speed |-> ms]
      ELSE IF ~ateFood
      THEN [hit |-> "none", snake |-> SubSeq(newSnake, 1, Len(newSnake) - 1),
            ate |-> FALSE, speed |-> ms]
      ELSE [hit |-> "none", snake |-> newSnake, ate |-> TRUE,
            speed |-> nextSpeed(ms)]

\* What the setSnake updater of the D-pad step decides from the snake prev,
\* the direction d, the food f of its closure and the speed ms: the kind of
\* collision, the snake it returns, whether it ate, and the speed it sets.
dpadOutcome(prev, d, f, ms) ==
  LET nextHead == moveHead(prev[1], d)
      ateFood == nextHead.x = f.x /\ nextHead.y = f.y
      newSnake == << nextHead >> \o prev
  IN  IF hitsWall(nextHead)
      THEN [hit |-> "wall", snake |-> INITIAL_SNAKE, ate |-> FALSE, speed |-> ms]
      ELSE IF hitsSelf(prev, nextHead)
      THEN [hit |-> "self", snake |-> INITIAL_SNAKE, ate |-> FALSE, speed |-> ms]
      ELSE IF ~ateFood
      THEN [hit |-> "none", snake |-> SubSeq(newSnake, 1, Len(newSnake) - 1),
            ate |-> FALSE, speed |-> ms]
      ELSE [hit |-> "none", snake |-> newSnake, ate |-> TRUE,
            speed |-> nextSpeed(ms)]

DpadInit ==
  /\ snake = INITIAL_SNAKE
  /\ dir = INITIAL_DIR
  /\ food \in randomFood(INITIAL_SNAKE)
  /\ running = TRUE
  /\ score = 0
  /\ speed = BASE_SPEED_MS
  /\ dirRef = dir
  /\ runningRef = running
  /\ foodRef = food
  /\ growthRef = 0
  /\ timers = 0
  /\ intervals = { [ms |-> speed, food |-> food] }
  /\ idle = 0
  /\ lastOp = "init"

\* step() as called by an interval whose step closes over stepFood.
dpadStep(stepFood) ==
  LET o == dpadOutcome(snake, dirRef, stepFood, speed)
  IN  IF o.hit # "none"
      THEN /\ timers < MaxTimers
           /\ snake' = o.snake
           /\ running' = FALSE
           /\ runningRef' = FALSE
           /\ timers' = timers + 1
           /\ idle' = idle + 1
           /\ lastOp' = IF o.hit = "wall" THEN "step_wall" ELSE "step_self"
           /\ UNCHANGED << dir, dirRef, food, foodRef, score, speed,
                           growthRef, intervals >>
      ELSE IF o.ate
      THEN /\ \E newFood \in randomFood(o.snake) : food' = newFood
           /\ snake' = o.snake
           /\ score' = score + 1
           /\ speed' = o.speed
           /\ intervals' = restartInterval(intervals, speed,
                                           [ms |-> speed', food |-> food'])
           /\ lastOp' = "step_eat"
           /\ UNCHANGED << dir, dirRef, foodRef, growthRef, running,
                           runningRef, timers, idle >>
      ELSE /\ snake' = o.snake
           /\ idle' = idle + 1
           /\ lastOp' = "step_move"
           /\ UNCHANGED << dir, dirRef, food, foodRef, growthRef, running,
                           runningRef, score, speed, timers, intervals >>

\* The callback of a live interval: if (!runningRef.current) return; step();
DpadTick ==
  \E iv \in intervals :
    IF ~runningRef
    THEN /\ lastOp' = "tick_ignored"
         /\ UNCHANGED << engine, timers, intervals, idle >>
    ELSE dpadStep(iv.food)

BoundedDpadTick == DpadTick /\ WithinBudget(score', idle')

\* The setTimeout callback of the D-pad resetGame.
DpadResetTimerFire ==
  /\ timers > 0
  /\ timers' = timers - 1
  /\ snake' = INITIAL_SNAKE
  /\ dir' = INITIAL_DIR
  /\ dirRef' = INITIAL_DIR
  /\ \E newFood \in randomFood(INITIAL_SNAKE) : food' = newFood
  /\ speed' = BASE_SPEED_MS
  /\ intervals' = restartInterval(intervals, speed,
                                  [ms |-> speed', food |-> food'])
  /\ score' = 0
  /\ running' = TRUE
  /\ runningRef' = TRUE
  /\ idle' = 0
  /\ lastOp' = "timer"
  /\ UNCHANGED << foodRef, growthRef >>

DpadNext ==
  \/ BoundedDpadTick
  \/ TogglePause
  \/ ChangeDir
  \/ Restart
  \/ DpadResetTimerFire

DpadSpec == DpadInit /\ [][DpadNext]_vars

\* ------------------------------------------------------------------- claims

\* Outcomes of a step that moved the snake without requesting a reset.
NonResetSteps == {"step_move", "step_eat"}

AllSteps == {"step_move", "step_eat", "step_wall", "step_self"}

Opposite(d) ==
  CASE d = "UP" -> "DOWN" [] d = "DOWN" -> "UP"
    [] d = "LEFT" -> "RIGHT" [] d = "RIGHT" -> "LEFT"

\* C1: in every reachable state every snake cell lies in [0,20) x [0,26) and
\* no two snake cells are equal.
C1_SnakeInBoardAndDistinct ==
  /\ \A i \in 1..Len(snake) :
       snake[i].x \in 0..19 /\ snake[i].y \in 0..25
  /\ \A i, j \in 1..Len(snake) : i # j => snake[i] # snake[j]

\* A long snake whose head has just reached the last column by a step.
C1_Witness ==
  /\ lastOp \in NonResetSteps
  /\ snake[1].x = 19
  /\ Len(snake) > 10

\* C2: a step of a game that has already moved never moves opposite to the
\* previous step of that game, that is, never onto the neck cell, whatever
\* direction requests were made in between.
C2_NeverReversesInPlace ==
  [][(lastOp' \in AllSteps /\ snake # INITIAL_SNAKE)
       => moveHead(snake[1], dirRef) # snake[2]]_vars

\* C3: a request for the reverse of the committed direction changes nothing
\* (the next step still moves in it); a request for any other direction
\* replaces the direction and changes nothing else.
C3_ReverseRequestIgnored ==
  /\ [](dirRef = dir)
  /\ [][\A d \in Direction :
          changeDir(d) =>
            IF d = Opposite(dir)
            THEN UNCHANGED << engine, timers >>
            ELSE /\ dir' = d
                 /\ dirRef' = d
                 /\ UNCHANGED << snake, food, foodRef, running, runningRef,
                                 score, speed, growthRef, timers >>]_vars

\* A reversal (UP while moving DOWN) has just been rejected.
C3_Witness ==
  /\ lastOp = "dir_rejected"
  /\ dir = "DOWN"
  /\ dirRef = "DOWN"
  /\ running

\* C4: a step that requests no reset lengthens the snake by exactly 1 when
\* the new head lands on the food and keeps its length otherwise; the growth
\* shows on the eating tick itself (the scenario from the initial snake).
C4_GrowthOnEatingTick ==
  [][lastOp' \in NonResetSteps =>
       LET nextHead == moveHead(snake[1], dirRef)
           ate == nextHead = food
       IN  /\ snake'[1] = nextHead
           /\ Len(snake') = Len(snake) + (IF ate THEN 1 ELSE 0)
           /\ ate => snake' = << nextHead >> \o snake
           /\ ~ate => snake' = << nextHead >> \o SubSeq(snake, 1, Len(snake) - 1)
           /\ (/\ snake = INITIAL_SNAKE /\ dirRef = "RIGHT"
               /\ food = [x |-> 6, y |-> 10] /\ score = 0 /\ speed = 140)
              => /\ snake' = << [x |-> 6, y |-> 10], [x |-> 5, y |-> 10],
                                [x |-> 4, y |-> 10], [x |-> 3, y |-> 10] >>
                 /\ score' = 1
                 /\ speed' = 134]_vars

\* The scenario's result: the first food eaten from the initial position.
C4_Witness ==
  /\ lastOp = "step_eat"
  /\ snake = << [x |-> 6, y |-> 10], [x |-> 5, y |-> 10],
                [x |-> 4, y |-> 10], [x |-> 3, y |-> 10] >>
  /\ score = 1
  /\ speed = 134

\* C5: an eating step adds 1 to score and sets speed to
\* max(70, floor(speed * 0.96)); any other step leaves both; speed stays in
\* 70..140 and only a reinitialization can raise it.
C5_ScoreAndSpeed ==
  /\ [](speed >= 70 /\ speed <= 140)
  /\ [][/\ lastOp' \in AllSteps =>
             LET ate == moveHead(snake[1], dirRef) = food
                 scaled == (speed * 96) \div 100
             IN  /\ ate => /\ score' = score + 1
                           /\ speed' = IF scaled < 70 THEN 70 ELSE scaled
                 /\ ~ate => score' = score /\ speed' = speed
        /\ timers' >= timers => speed' <= speed]_vars

\* The sixteenth meal: 73 * 0.96 has already given 70, and the floor holds it.
C5_Witness ==
  /\ lastOp = "step_eat"
  /\ score = 16
  /\ speed = 70

\* The state resetGame's timeout establishes.
InitialState ==
  /\ snake = << [x |-> 5, y |-> 10], [x |-> 4, y |-> 10], [x |-> 3, y |-> 10] >>
  /\ dir = "RIGHT"
  /\ dirRef = "RIGHT"
  /\ speed = 140
  /\ score = 0
  /\ growthRef = 0
  /\ running
  /\ runningRef
  /\ food = foodRef
  /\ food.x \in 0..19 /\ food.y \in 0..25
  /\ \A i \in 1..3 : snake[i] # food

\* C6: once a reset has been requested (by a collision step or by Restart,
\* in any state), and given that its timeout fires, the engine comes to the
\* exact initial state by that timeout.
C6_ResetReachesInitialState ==
  (timers > 0) ~> (lastOp = "timer" /\ InitialState)

\* The initial state, reached by the timeout of a first request while the
\* timeout of a request made during that death pause is still pending.
C6_Witness ==
  /\ lastOp = "timer"
  /\ InitialState
  /\ timers = 1

\* C7: while a reset timeout is pending, running is false and snake,
\* direction, food, score, speed and pending growth do not change.
C7_DeathPauseFrozen ==
  [][(timers > 0 /\ timers' >= timers) =>
       /\ ~running'
       /\ UNCHANGED << snake, dir, food, score, speed, growthRef >>]_vars

\* C8: overlapping reset requests give one reinitialization: when a reset
\* timeout fires, no other reset timeout is left to fire after it.
C8_SingleReinitialization ==
  [][timers' < timers => timers' = 0]_vars

\* C9: a tick that arrives while running is false changes nothing; the
\* flag the interval callback reads is the running flag.
C9_TickWhileNotRunningIsNoOp ==
  /\ [](runningRef = running)
  /\ [][(~running /\ Tick) =>
          UNCHANGED << snake, dir, food, score, speed, growthRef,
                       running, dirRef, foodRef, timers >>]_vars

\* A tick was ignored during a user pause in the middle of a game.
C9_Witness ==
  /\ lastOp = "tick_ignored"
  /\ ~running
  /\ timers = 0
  /\ score > 0

\* C10: right after food is placed (construction, reinitialization, eaten
\* food) the food cell is on the board and on no cell of the snake.
C10_FoodPlacedOnFreeCell ==
  lastOp \in {"init", "timer", "step_eat"} =>
    /\ food.x \in 0..19 /\ food.y \in 0..25
    /\ \A i \in 1..Len(snake) : snake[i] # food
    /\ foodRef = food

\* Food placed straight ahead of a snake that has just eaten.
C10_Witness ==
  /\ lastOp = "step_eat"
  /\ Len(snake) = 5
  /\ food = moveHead(snake[1], dirRef)

\* C11: a direction request moves nothing by itself, and every step moves
\* the head one cell in dir, the direction left by the last accepted request
\* (a step that resets is decided by that same cell); a step leaves dir alone.
C11_LastAcceptedRequestDrivesNextStep ==
  [][/\ lastOp' \in {"dir_set", "dir_rejected"} =>
          UNCHANGED << snake, score, speed, food, running, timers >>
     /\ lastOp' \in NonResetSteps => snake'[1] = moveHead(snake[1], dir)
     /\ lastOp' = "step_wall" =>
          LET n == moveHead(snake[1], dir)
          IN  n.x < 0 \/ n.x > 19 \/ n.y < 0 \/ n.y > 25
     /\ lastOp' = "step_self" =>
          \E i \in 1..Len(snake) : snake[i] = moveHead(snake[1], dir)
     /\ lastOp' \in AllSteps => dir' = dir]_vars

\* The first step of a game ran the head into the neck: only a burst of two
\* accepted requests (UP or DOWN, then LEFT) with no step between them turns
\* the initial RIGHT into LEFT, and the step followed the last of them.
C11_Witness ==
  /\ lastOp = "step_self"
  /\ dir = "LEFT"
  /\ score = 0
  /\ idle = 1
  /\ timers = 1

\* C12: a step whose next head is outside the board sets running to false,
\* yields the initial snake and leaves score, speed, food, direction and
\* pendingGrowth alone; whatever happens next, short of the reset timer
\* firing, keeps running false and those fields unchanged.
C12_WallStepPausesUntilTimer ==
  [][/\ lastOp' = "step_wall" =>
          /\ ~running'
          /\ snake' = INITIAL_SNAKE
          /\ UNCHANGED << score, speed, food, dir, growthRef >>
     /\ (lastOp = "step_wall" /\ timers' >= timers) =>
          /\ ~running'
          /\ UNCHANGED << score, speed, food, dir, growthRef >>]_vars

\* C13: a step resets for self collision exactly when its next head is a
\* cell of the body to check: the snake without its last cell on a step that
\* does not eat with pendingGrowth 0, the whole snake otherwise.  A step
\* resets at all exactly when that holds or the next head is off the board,
\* so a non-eating step into the current tail cell moves there.
C13_SelfCollisionRule ==
  [][lastOp' \in AllSteps =>
       LET nextHead == moveHead(snake[1], dirRef)
           checked == IF nextHead # food /\ growthRef = 0
                      THEN Len(snake) - 1
                      ELSE Len(snake)
           inBody == \E i \in 1..checked : snake[i] = nextHead
           offBoard == nextHead.x \notin 0..19 \/ nextHead.y \notin 0..25
           intoTail == nextHead = snake[Len(snake)] /\ nextHead # food
       IN  /\ lastOp' = "step_self" <=> inBody
           /\ timers' = timers + 1 <=> (inBody \/ offBoard)
           /\ (snake' = INITIAL_SNAKE /\ ~running') <=> (inBody \/ offBoard)
           /\ intoTail => (lastOp' = "step_move" /\ snake'[1] = nextHead)]_vars

\* After one meal and three moves the head stands on the cell that was the
\* tail a step ago, (5,10): the fourth step of the game moved into it.
C13_Witness ==
  /\ lastOp = "step_move"
  /\ snake = << [x |-> 5, y |-> 10], [x |-> 5, y |-> 9],
                [x |-> 6, y |-> 9], [x |-> 6, y |-> 10] >>
  /\ score = 1
  /\ idle = 3
  /\ timers = 0

\* C14: in the D-pad variant the food a tick compares the next head with is
\* the food in state: every live interval's step closes over the current food.
C14_DpadStepComparesCurrentFood ==
  \A iv \in intervals : iv.food = food

\* C15: exactly one interval is live and its period is the current speed;
\* a transition that changes speed cancels the interval of the old period
\* and starts one of the new period, and no other transition touches the
\* intervals, so no tick comes from a cancelled or a second interval.
C15_OneIntervalAtCurrentSpeed ==
  /\ [](intervals = { [ms |-> speed] })
  /\ [][IF speed' # speed
        THEN /\ [ms |-> speed] \notin intervals'
             /\ [ms |-> speed'] \in intervals'
             /\ Cardinality(intervals') = 1
        ELSE intervals' = intervals]_vars

\* The second meal has just replaced the 134 ms interval by a 128 ms one.
C15_Witness ==
  /\ lastOp = "step_eat"
  /\ score = 2
  /\ speed = 128
  /\ intervals = { [ms |-> 128] }

\* C16: whenever a tick is about to eat, and so to call randomFood on the
\* snake with its new head, that snake does not cover the whole board.
C16_RandomFoodHasFreeCell ==
  LET nextHead == moveHead(snake[1], dirRef)
      cells == { snake[i] : i \in 1..Len(snake) } \cup {nextHead}
  IN  (/\ runningRef
       /\ nextHead = foodRef
       /\ nextHead.x \in 0..19 /\ nextHead.y \in 0..25
       /\ nextHead \notin { snake[i] : i \in 1..Len(snake) })
      => Cardinality(cells) < 520

\* C17: pendingGrowth (growthRef) is 0 in every state, so between any two
\* steps; a step that does not reset keeps the tail cell and grows by one
\* exactly when it eats, and drops the tail otherwise.
C17_NoGrowthPendingBetweenSteps ==
  /\ [](growthRef = 0)
  /\ [][lastOp' \in NonResetSteps =>
          LET ate == moveHead(snake[1], dirRef) = foodRef
          IN  IF ate
              THEN /\ Len(snake') = Len(snake) + 1
                   /\ snake'[Len(snake')] = snake[Len(snake)]
              ELSE /\ Len(snake') = Len(snake)
                   /\ snake'[Len(snake')] = snake[Len(snake) - 1]]_vars

\* A tick after the third meal moved without eating: the tail was dropped
\* and nothing is pending.
C17_Witness ==
  /\ lastOp = "step_move"
  /\ score = 3
  /\ Len(snake) = 6
  /\ growthRef = 0

SpeedAfterMeals[n \in Nat] ==
  IF n = 0
  THEN 140
  ELSE LET scaled == (SpeedAfterMeals[n - 1] * 96) \div 100
       IN  IF scaled < 70 THEN 70 ELSE scaled

\* C18: with no reset timer pending, score is the snake's length minus 3
\* and speed is ms -> max(70, floor(ms * 0.96)) applied score times to 140.
C18_ScoreLengthSpeedAgree ==
  timers = 0 =>
    /\ score = Len(snake) - 3
    /\ speed = SpeedAfterMeals[score]

\* A running game, five meals in.
C18_Witness ==
  /\ timers = 0
  /\ running
  /\ lastOp = "step_eat"
  /\ score = 5
  /\ Len(snake) = 8
  /\ speed = 112

\* C19: with no reset timer pending, the food is on no cell of the snake.
C19_FoodOffSnake ==
  timers = 0 => \A i \in 1..Len(snake) : snake[i] # food

\* The snake has stepped past the food it was heading for: the food lies
\* beside the neck, off the snake.
C19_Witness ==
  /\ timers = 0
  /\ lastOp = "step_move"
  /\ score >= 1
  /\ \E d \in Direction : moveHead(snake[2], d) = food
  /\ \A i \in 1..Len(snake) : snake[i] # food

\* C20: from the same snake, direction, food and speed, the swipe step and
\* the D-pad step decide the same collision, snake, score change and speed,
\* except when the next head is the current tail cell and is not the food:
\* there the swipe step moves and only the D-pad step resets.  (The second
\* conjunct ties swipeOutcome to the step the swipe specification takes.)
C20_StepsAgreeExceptOnTail ==
  /\ [](LET a == swipeOutcome(snake, dirRef, food, growthRef, speed)
            b == dpadOutcome(snake, dirRef, food, speed)
            nextHead == moveHead(snake[1], dirRef)
        IN  IF nextHead = snake[Len(snake)] /\ nextHead # food
            THEN a.hit = "none" /\ b.hit = "self"
            ELSE a = b)
  /\ [][lastOp' \in AllSteps =>
          LET a == swipeOutcome(snake, dirRef, foodRef, growthRef, speed)
          IN  /\ snake' = a.snake
              /\ score' = score + (IF a.ate THEN 1 ELSE 0)
              /\ speed' = a.speed
              /\ timers' = timers + (IF a.hit = "none" THEN 0 ELSE 1)]_vars

\* A running 4-cell snake whose head, moving DOWN, is about to enter its
\* own tail cell (5,10): the case on which the two steps differ.
C20_Witness ==
  /\ runningRef
  /\ timers = 0
  /\ dirRef = "DOWN"
  /\ food # [x |-> 5, y |-> 10]
  /\ snake = << [x |-> 5, y |-> 9], [x |-> 6, y |-> 9],
                [x |-> 6, y |-> 10], [x |-> 5, y |-> 10] >>

====
